---------------------------- MODULE Spec2Model ----------------------------
(***************************************************************************)
(* A model of zorro_doc_extractor.py: the table-of-contents parser         *)
(* (get_doc_urls), the content converter (html_to_markdown), the           *)
(* related-page resolver (find_related_pages), the index generator         *)
(* (generate_index) and the orchestrator (extract_zorro_documentation).    *)
(*                                                                         *)
(* Python strings are TLA+ strings; an optional value (None or a string)   *)
(* is the empty tuple or a one-element tuple; an insertion-ordered dict is *)
(* a sequence of entries with distinct keys.                               *)
(***************************************************************************)
EXTENDS Naturals, Sequences, FiniteSets, TLC

VARIABLES
    pc,          \* position of extract_zorro_documentation
    toc,         \* soup.find_all(['img', 'a']) of the TOC document
    doc_urls,    \* the flat PageDescriptor list
    hierarchy,   \* the Hierarchy (ordered dict of categories)
    dirs,        \* directories that exist on disk
    files,       \* files on disk: path -> content
    i,           \* index of the page the orchestrator's loop is at
    log,         \* side effects in order: HTTP GETs, sleeps, errors, index
    md_in,       \* html_to_markdown: the page given
    md_out,      \* html_to_markdown: the (title, markdown) returned
    rel_in,      \* find_related_pages: (html, all_pages, current_url)
    rel_out      \* find_related_pages: the list returned

vars == <<pc, toc, doc_urls, hierarchy, dirs, files, i, log,
          md_in, md_out, rel_in, rel_out>>

runVars == <<pc, toc, doc_urls, hierarchy, dirs, files, i, log>>

---------------------------------------------------------------------------
(* Bounds of the model.                                                    *)

MaxToc == 4        \* longest TOC element list
MaxNodes == 3      \* longest page body (nodes) given to the converter
MaxLinks == 3      \* most anchors in a page given to the resolver

---------------------------------------------------------------------------
(* Python str and Optional helpers.                                        *)

None == <<>>
Some(s) == <<s>>

\* Python truthiness of an Optional[str]: None and "" are falsy.
Truthy(o) == o # None /\ o[1] # ""

\* `a or b` for an Optional[str] a and a str b.
OrElse(o, s) == IF Truthy(o) THEN o[1] ELSE s

CharAt(s, k) == SubSeq(s, k, k)

StartsWith(s, p) == Len(s) >= Len(p) /\ SubSeq(s, 1, Len(p)) = p

EndsWith(s, p) == Len(s) >= Len(p) /\ SubSeq(s, Len(s) - Len(p) + 1, Len(s)) = p

\* `p in s` for strings.
Contains(s, p) == \E k \in 1..(Len(s) - Len(p) + 1) : SubSeq(s, k, k + Len(p) - 1) = p

\* str.replace(old, new): every non-overlapping occurrence, left to right.
RECURSIVE StrReplace(_, _, _)
StrReplace(s, old, new) ==
    IF Len(s) < Len(old) \/ Len(old) = 0 THEN s
    ELSE IF SubSeq(s, 1, Len(old)) = old
         THEN new \o StrReplace(SubSeq(s, Len(old) + 1, Len(s)), old, new)
         ELSE CharAt(s, 1) \o StrReplace(SubSeq(s, 2, Len(s)), old, new)

\* Index of the last "/" of s, 0 when there is none.
LastSlash(s) ==
    LET at == {k \in 1..Len(s) : CharAt(s, k) = "/"}
    IN  IF at = {} THEN 0 ELSE CHOOSE k \in at : \A j \in at : j <= k

\* os.path.basename
Basename(s) == SubSeq(s, LastSlash(s) + 1, Len(s))

\* os.path.join of two components (no component here starts with "/").
PathJoin(a, b) ==
    IF a = "" THEN b
    ELSE IF EndsWith(a, "/") THEN a \o b
    ELSE a \o "/" \o b

\* A directory path as the filesystem sees it: a trailing "/" names the same directory.
NormDir(p) == IF Len(p) > 1 /\ EndsWith(p, "/") THEN SubSeq(p, 1, Len(p) - 1) ELSE p

\* os.path.dirname
Dirname(p) == IF LastSlash(p) = 0 THEN "" ELSE SubSeq(p, 1, LastSlash(p) - 1)

---------------------------------------------------------------------------
(* sanitize_filename                                                       *)

UnsafeChars == {"\\", "/", "*", "?", ":", "\"", "<", ">", "|"}

RECURSIVE MapChars(_, _, _)
MapChars(s, bad, to) ==
    IF s = "" THEN ""
    ELSE (IF CharAt(s, 1) \in bad THEN to ELSE CharAt(s, 1))
         \o MapChars(SubSeq(s, 2, Len(s)), bad, to)

sanitize_filename(filename) == MapChars(MapChars(filename, UnsafeChars, "_"), {" "}, "_")

\* page['filename'].replace('.htm', '.md'), sanitized: the name of a page's file.
SafePageFile(page) == sanitize_filename(StrReplace(page.filename, ".htm", ".md"))

---------------------------------------------------------------------------
(* urllib.parse.urljoin, for the references the model draws: an absolute   *)
(* http(s) URL, a network-path reference, an absolute path, or a relative  *)
(* path without "." or ".." segments.                                      *)

BASE_URL == "https://zorro-project.com/manual/"

\* The scheme of a URL ("" when it has none): the letters before the first ":",
\* when no "/" comes before it.
SchemeOf(u) ==
    LET colons == {k \in 1..Len(u) : CharAt(u, k) = ":"}
        first == CHOOSE k \in colons : \A j \in colons : k <= j
    IN  IF colons = {} THEN ""
        ELSE IF first = 1 \/ Contains(SubSeq(u, 1, first - 1), "/") THEN ""
        ELSE SubSeq(u, 1, first - 1)

IsAbsoluteUrl(u) == SchemeOf(u) # ""

\* scheme://netloc of an absolute URL ("" for a URL without a scheme).
OriginOf(u) ==
    LET sch == SchemeOf(u)
        rest == SubSeq(u, Len(sch) + 4, Len(u))     \* after "scheme://"
        slashes == {k \in 1..Len(rest) : CharAt(rest, k) = "/"}
        first == CHOOSE k \in slashes : \A j \in slashes : k <= j
    IN  IF sch = "" THEN ""
        ELSE IF slashes = {} THEN u
        ELSE SubSeq(u, 1, Len(sch) + 3 + first - 1)

urljoin(base, ref) ==
    IF ref = "" THEN base
    ELSE IF SchemeOf(ref) # "" THEN ref
    ELSE IF StartsWith(ref, "//") THEN
        (IF SchemeOf(base) = "" THEN ref ELSE SchemeOf(base) \o ":" \o ref)
    ELSE IF StartsWith(ref, "/") THEN OriginOf(base) \o ref
    ELSE IF SchemeOf(base) # "" /\ OriginOf(base) = base THEN base \o "/" \o ref
    ELSE SubSeq(base, 1, LastSlash(base)) \o ref

---------------------------------------------------------------------------
(* Insertion-ordered dict: a sequence of [key, val] with distinct keys.    *)

DictKeys(d) == {d[k].key : k \in 1..Len(d)}

DictHas(d, key) == key \in DictKeys(d)

DictGet(d, key) == d[CHOOSE k \in 1..Len(d) : d[k].key = key].val

\* d[key] = val: a new key is appended, an existing key keeps its position.
DictSet(d, key, val) ==
    IF DictHas(d, key)
    THEN [k \in 1..Len(d) |-> IF d[k].key = key THEN [key |-> key, val |-> val] ELSE d[k]]
    ELSE Append(d, [key |-> key, val |-> val])

---------------------------------------------------------------------------
(* get_doc_urls: the scan of the TOC's img and a elements.                 *)

TOC_ITEM_CLASS == <<"clsTOCItem">>

\* An element of soup.find_all(['img', 'a']).
Img(src) == [name |-> "img", src |-> src, class |-> <<>>, href |-> None,
             title |-> None, text |-> ""]

Anchor(class, href, title, text) ==
    [name |-> "a", src |-> "", class |-> class, href |-> href,
     title |-> title, text |-> text]

\* element.get('title') or element.text
TitleOf(e) == OrElse(e.title, e.text)

\* The scan's cursors and results before the first element.
ScanInit == [doc_urls |-> <<>>, current_category |-> "Main",
             current_subcategory |-> None, hierarchy |-> <<>>]

EmptyCategory == [subcategories |-> <<>>, pages |-> <<>>]

\* Lines 29-34: a category marker (img with p4.gif).
CategoryMarker(st, elements, k) ==
    IF k + 1 <= Len(elements) /\ elements[k + 1].name = "a"
    THEN LET cat == TitleOf(elements[k + 1])
         IN  [st EXCEPT !.current_category = cat,
                        !.current_subcategory = None,
                        !.hierarchy = DictSet(st.hierarchy, cat, EmptyCategory)]
    ELSE st

\* Lines 37-42: a subcategory marker (img with p3.gif).
SubcategoryMarker(st, elements, k) ==
    IF k + 1 <= Len(elements) /\ elements[k + 1].name = "a"
    THEN LET sub == TitleOf(elements[k + 1])
             cat == st.current_category
         IN  IF DictHas(st.hierarchy, cat)
             THEN LET data == DictGet(st.hierarchy, cat)
                  IN  [st EXCEPT !.current_subcategory = Some(sub),
                                 !.hierarchy = DictSet(st.hierarchy, cat,
                                     [data EXCEPT !.subcategories = DictSet(@, sub, <<>>)])]
             ELSE [st EXCEPT !.current_subcategory = Some(sub)]
    ELSE st

\* Lines 51-54: the URL stored for an href.
FullUrl(url) == IF ~StartsWith(url, "http") THEN urljoin(BASE_URL, url) ELSE url

\* Lines 56-62
PageInfo(st, e) ==
    [url |-> FullUrl(e.href[1]), title |-> TitleOf(e),
     category |-> st.current_category, subcategory |-> st.current_subcategory,
     filename |-> Basename(e.href[1])]

\* Lines 65-70: the page added to the Hierarchy.
AddToHierarchy(h, page) ==
    IF DictHas(h, page.category)
    THEN LET data == DictGet(h, page.category)
             sub == page.subcategory
         IN  IF Truthy(sub) /\ DictHas(data.subcategories, sub[1])
             THEN DictSet(h, page.category,
                     [data EXCEPT !.subcategories =
                         DictSet(@, sub[1], Append(DictGet(@, sub[1]), page))])
             ELSE DictSet(h, page.category, [data EXCEPT !.pages = Append(@, page)])
    ELSE h

\* Lines 45-70: a page anchor (a with class clsTOCItem).
PageAnchor(st, e) ==
    IF Truthy(e.href) /\ EndsWith(e.href[1], ".htm")
    THEN LET page == PageInfo(st, e)
         IN  [st EXCEPT !.doc_urls = Append(@, page),
                        !.hierarchy = AddToHierarchy(@, page)]
    ELSE st

\* Lines 27-70: the loop body for elements[k].
ScanStep(st, elements, k) ==
    LET e == elements[k]
    IN  IF e.name = "img" /\ Contains(e.src, "p4.gif") THEN CategoryMarker(st, elements, k)
        ELSE IF e.name = "img" /\ Contains(e.src, "p3.gif") THEN SubcategoryMarker(st, elements, k)
        ELSE IF e.name = "a" /\ e.class = TOC_ITEM_CLASS THEN PageAnchor(st, e)
        ELSE st

\* The state of the scan after elements[1..k].
RECURSIVE ScanTo(_, _)
ScanTo(elements, k) ==
    IF k = 0 THEN ScanInit ELSE ScanStep(ScanTo(elements, k - 1), elements, k)

\* Lines 17-72: what get_doc_urls returns for the element list.
get_doc_urls(elements) == ScanTo(elements, Len(elements))


---------------------------------------------------------------------------
(* More of Python's str.                                                   *)

Digits == "0123456789"

\* str(n) for a natural number.
RECURSIVE IntToStr(_)
IntToStr(n) ==
    IF n < 10 THEN CharAt(Digits, n + 1)
    ELSE IntToStr(n \div 10) \o CharAt(Digits, (n % 10) + 1)

UpperLetters == "ABCDEFGHIJKLMNOPQRSTUVWXYZ"
LowerLetters == "abcdefghijklmnopqrstuvwxyz"

LowerChar(c) ==
    IF \E k \in 1..26 : CharAt(UpperLetters, k) = c
    THEN CharAt(LowerLetters, CHOOSE k \in 1..26 : CharAt(UpperLetters, k) = c)
    ELSE c

\* str.lower()
RECURSIVE Lower(_)
Lower(s) == IF s = "" THEN "" ELSE LowerChar(CharAt(s, 1)) \o Lower(SubSeq(s, 2, Len(s)))

Whitespace == {" ", "\n", "\t", "\r"}

\* str.strip()
Strip(s) ==
    LET keep == {k \in 1..Len(s) : CharAt(s, k) \notin Whitespace}
        lo == CHOOSE k \in keep : \A j \in keep : k <= j
        hi == CHOOSE k \in keep : \A j \in keep : j <= k
    IN  IF keep = {} THEN "" ELSE SubSeq(s, lo, hi)

\* str(list_of_str), e.g. "['a', 'b']"
RECURSIVE StrOfTail(_)
StrOfTail(l) == IF l = <<>> THEN "" ELSE ", '" \o Head(l) \o "'" \o StrOfTail(Tail(l))

StrOfList(l) ==
    IF l = <<>> THEN "[]" ELSE "['" \o Head(l) \o "'" \o StrOfTail(Tail(l)) \o "]"

\* The number of "\n" that s starts with.
LeadingNewlines(s) ==
    CHOOSE n \in 0..Len(s) :
        /\ \A k \in 1..n : CharAt(s, k) = "\n"
        /\ (n < Len(s) => CharAt(s, n + 1) # "\n")

\* re.sub(r'\n{3,}', '\n\n', s)
RECURSIVE CollapseNewlines(_)
CollapseNewlines(s) ==
    IF s = "" THEN ""
    ELSE IF CharAt(s, 1) = "\n"
         THEN LET n == LeadingNewlines(s)
              IN  (IF n >= 3 THEN "\n\n" ELSE SubSeq(s, 1, n))
                  \o CollapseNewlines(SubSeq(s, n + 1, Len(s)))
         ELSE CharAt(s, 1) \o CollapseNewlines(SubSeq(s, 2, Len(s)))

---------------------------------------------------------------------------
(* A fetched page: an optional <title> and the body's nodes in document    *)
(* order. A node is a paragraph of text, a code region (pre or code, not   *)
(* nested) or an anchor.                                                   *)

Para(text) == [tag |-> "p", class |-> None, href |-> None, text |-> text]

\* class: None when the element has no class attribute, else <<list of classes>>.
CodeRegion(tag, class, text) == [tag |-> tag, class |-> class, href |-> None, text |-> text]

Link(href, text) == [tag |-> "a", class |-> None, href |-> href, text |-> text]

Page(title, nodes) == [title |-> title, nodes |-> nodes]

---------------------------------------------------------------------------
(* html_to_markdown                                                        *)

CODE_PLACEHOLDER == "CODE_BLOCK_PLACEHOLDER_"

\* code_placeholder.format(i), numbered from 0.
Placeholder(n) == CODE_PLACEHOLDER \o IntToStr(n)

\* Lines 88-96: the language of a code element.
Language(node) ==
    IF node.class = None THEN "c"
    ELSE LET classes == Lower(StrOfList(node.class[1]))
         IN  IF Contains(classes, "python") THEN "python"
             ELSE IF Contains(classes, "javascript") \/ Contains(classes, "js") THEN "javascript"
             ELSE IF Contains(classes, "rsplus") THEN "r"
             ELSE "c"

\* soup.find_all(['pre', 'code', '.wp_codebox']): '.wp_codebox' names no tag.
IsCode(node) == node.tag \in {"pre", "code"}

\* The positions of the code elements, in document order.
CodePositions(nodes) == {k \in 1..Len(nodes) : IsCode(nodes[k])}

\* The number (from 0) the loop gives the code element at position k.
CodeNumber(nodes, k) == Cardinality({j \in CodePositions(nodes) : j < k})

\* Line 99: code_blocks, as (language, text) pairs.
RECURSIVE CodeBlocks(_)
CodeBlocks(nodes) ==
    IF nodes = <<>> THEN <<>>
    ELSE LET n == nodes[Len(nodes)]
             before == CodeBlocks(SubSeq(nodes, 1, Len(nodes) - 1))
         IN  IF IsCode(n) THEN Append(before, <<Language(n), n.text>>) ELSE before

\* Lines 102-104: every code element replaced by a <p> holding its placeholder.
WithPlaceholders(nodes) ==
    [k \in 1..Len(nodes) |->
        IF IsCode(nodes[k]) THEN Para(Placeholder(CodeNumber(nodes, k))) ELSE nodes[k]]

\* Lines 107-109: html2text with body_width 0, for paragraphs and anchors: a
\* paragraph is its text and a blank line, an anchor an inline link.
RECURSIVE Html2Text(_)
Html2Text(nodes) ==
    IF nodes = <<>> THEN ""
    ELSE LET n == Head(nodes)
         IN  (IF n.tag = "a"
              THEN "[" \o n.text \o "](" \o OrElse(n.href, "") \o ")\n\n"
              ELSE n.text \o "\n\n")
             \o Html2Text(Tail(nodes))

\* The fence of a Markdown code block. A TLA+ string cannot hold a backquote:
\* "~" stands for it, and no input of the model holds one.
FENCE == "~~~"

\* Line 113
FencedBlock(language, code) == FENCE \o language \o "\n" \o Strip(code) \o "\n" \o FENCE

\* Lines 112-114: the placeholders replaced, block k first.
RECURSIVE RestoreFrom(_, _, _)
RestoreFrom(markdown, blocks, k) ==
    IF k > Len(blocks) THEN markdown
    ELSE RestoreFrom(
            StrReplace(markdown, Placeholder(k - 1), FencedBlock(blocks[k][1], blocks[k][2])),
            blocks, k + 1)

\* Lines 74-119
html_to_markdown(html) ==
    LET title == IF html.title # None THEN html.title[1] ELSE "Untitled"
        code_blocks == CodeBlocks(html.nodes)
        converted == Html2Text(WithPlaceholders(html.nodes))
        restored == RestoreFrom(converted, code_blocks, 1)
    IN  <<title, CollapseNewlines(restored)>>

---------------------------------------------------------------------------
(* find_related_pages                                                      *)

\* MatchLine without the test `full_url != current_url` of line 133.
RECURSIVE MatchLineWithSelf(_, _, _, _)
MatchLineWithSelf(all_pages, full_url, current_url, href) ==
    IF all_pages = <<>> THEN <<>>
    ELSE LET page == Head(all_pages)
         IN  IF page.url = full_url
             THEN <<"- [" \o page.title \o "](" \o Basename(href) \o ")">>
             ELSE MatchLineWithSelf(Tail(all_pages), full_url, current_url, href)

\* Lines 132-135: the line for the first page matching full_url, if any.
RECURSIVE MatchLine(_, _, _, _)
MatchLine(all_pages, full_url, current_url, href) ==
    IF all_pages = <<>> THEN <<>>
    ELSE LET page == Head(all_pages)
         IN  IF page.url = full_url /\ full_url # current_url
             THEN <<"- [" \o page.title \o "](" \o Basename(href) \o ")">>
             ELSE MatchLine(Tail(all_pages), full_url, current_url, href)

\* Lines 126-135: the lines of the anchors, in document order.
RECURSIVE RelatedLines(_, _, _)
RelatedLines(nodes, all_pages, current_url) ==
    IF nodes = <<>> THEN <<>>
    ELSE LET link == Head(nodes)
             rest == RelatedLines(Tail(nodes), all_pages, current_url)
         IN  IF link.tag = "a" /\ Truthy(link.href) /\ EndsWith(link.href[1], ".htm")
             THEN MatchLine(all_pages, urljoin(current_url, link.href[1]),
                            current_url, link.href[1]) \o rest
             ELSE rest

\* list(dict.fromkeys(l)): the first occurrence of every element, in order.
RECURSIVE Dedup(_)
Dedup(l) ==
    IF l = <<>> THEN <<>>
    ELSE LET before == Dedup(SubSeq(l, 1, Len(l) - 1))
             last == l[Len(l)]
         IN  IF \E k \in 1..Len(before) : before[k] = last THEN before
             ELSE Append(before, last)

\* Lines 121-140
find_related_pages(html, all_pages, current_url) ==
    LET related == Dedup(RelatedLines(html.nodes, all_pages, current_url))
    IN  IF related # <<>> THEN related ELSE <<"- None">>

\* Lines 142-157
create_metadata_header(title, url, category, subcategory, related_pages) ==
    LET RECURSIVE Join(_)
        Join(l) == IF l = <<>> THEN ""
                   ELSE IF Len(l) = 1 THEN l[1]
                   ELSE l[1] \o "\n" \o Join(Tail(l))
    IN  "---\ntitle: " \o title \o "\nurl: " \o url \o "\ncategory: " \o category
        \o "\nsubcategory: " \o OrElse(subcategory, "None")
        \o "\nrelated_pages:\n" \o Join(related_pages) \o "\n---\n\n# " \o title \o "\n\n"

---------------------------------------------------------------------------
(* The filesystem: the directories that exist and the files' contents.     *)

\* open(path, 'w') succeeds when the parent directory exists and path is no directory.
CanOpen(ds, path) == NormDir(Dirname(path)) \in ds /\ NormDir(path) \notin ds

\* A file written (created or overwritten).
WriteFile(fs, path, content) == (path :> content) @@ fs

\* The writes of a list of (path, content), in order, stopping at the first open() that
\* fails: the files after them and whether all succeeded.
RECURSIVE WriteAll(_, _, _)
WriteAll(fs, ds, writes) ==
    IF writes = <<>> THEN [files |-> fs, ok |-> TRUE]
    ELSE IF CanOpen(ds, writes[1][1])
         THEN WriteAll(WriteFile(fs, writes[1][1], writes[1][2]), ds, Tail(writes))
         ELSE [files |-> fs, ok |-> FALSE]

RECURSIVE Flatten(_)
Flatten(ss) == IF ss = <<>> THEN <<>> ELSE Head(ss) \o Flatten(Tail(ss))

---------------------------------------------------------------------------
(* generate_index. An index file's content is its lines: <<"h1", text>>,   *)
(* <<"h2", text>>, <<"h3", text>> for the headings and                     *)
(* <<"link", title, target>> for "[title](target)".                        *)

\* Lines 169-171, 179-181, 199-201, 211-213, 224-226: the links to pages, under prefix.
PageLinks(pages, prefix) ==
    [k \in 1..Len(pages) |-> <<"link", pages[k].title, prefix \o SafePageFile(pages[k])>>]

\* RootSubcategoryLines without the test of line 175.
RootSubcategoryLinesUnguarded(safe_category, sub) ==
    <<<<"h3", sub.key>>>>
    \o PageLinks(sub.val, safe_category \o "/" \o sanitize_filename(sub.key) \o "/")

\* Lines 175-181: a subcategory's part of the root index.
RootSubcategoryLines(safe_category, sub) ==
    IF sub.val # <<>>
    THEN <<<<"h3", sub.key>>>>
         \o PageLinks(sub.val, safe_category \o "/" \o sanitize_filename(sub.key) \o "/")
    ELSE <<>>

\* Lines 164-183: a category's part of the root index.
RootCategoryLines(cat) ==
    LET safe_category == sanitize_filename(cat.key)
        subs == cat.val.subcategories
    IN  <<<<"h2", cat.key>>>>
        \o PageLinks(cat.val.pages, safe_category \o "/")
        \o Flatten([k \in 1..Len(subs) |-> RootSubcategoryLines(safe_category, subs[k])])

\* Lines 162-183: index_content.
RootIndex(h) ==
    <<<<"h1", "Zorro Documentation Index">>>>
    \o Flatten([k \in 1..Len(h) |-> RootCategoryLines(h[k])])

\* Lines 194-215: category_index.
CategoryIndex(cat) ==
    LET subs == cat.val.subcategories
    IN  <<<<"h1", cat.key>>>>
        \o (IF cat.val.pages # <<>>
            THEN <<<<"h2", "Pages">>>> \o PageLinks(cat.val.pages, "")
            ELSE <<>>)
        \o (IF subs # <<>>
            THEN <<<<"h2", "Subcategories">>>>
                 \o Flatten([k \in 1..Len(subs) |->
                        <<<<"h3", subs[k].key>>>>
                        \o PageLinks(subs[k].val, sanitize_filename(subs[k].key) \o "/")])
            ELSE <<>>)

\* Lines 222-226: subcategory_index.
SubcategoryIndex(category, sub) ==
    <<<<"h1", sub.key>>, <<"link", category, "../index.md">>, <<"h2", "Pages">>>>
    \o PageLinks(sub.val, "")

CategoryDir(output_dir, category) == PathJoin(output_dir, sanitize_filename(category))

SubcategoryDir(output_dir, category, subcategory) ==
    PathJoin(CategoryDir(output_dir, category), sanitize_filename(subcategory))

\* Lines 217-229: the subcategories generate_index writes an index for.
HasSubcategoryIndex(sub) == sub.val # <<>>

\* Lines 190-233: the index files of one category, in the order written: its
\* subcategories' indexes, then its own. Each is <<path, content>>.
CategoryWrites(output_dir, cat) ==
    LET subs == cat.val.subcategories
    IN  Flatten([k \in 1..Len(subs) |->
            IF HasSubcategoryIndex(subs[k])
            THEN <<<<PathJoin(SubcategoryDir(output_dir, cat.key, subs[k].key), "index.md"),
                     SubcategoryIndex(cat.key, subs[k])>>>>
            ELSE <<>>])
        \o <<<<PathJoin(CategoryDir(output_dir, cat.key), "index.md"),
               CategoryIndex(cat)>>>>

\* Lines 186-233: every file generate_index writes, in order.
IndexWrites(output_dir, h) ==
    <<<<PathJoin(output_dir, "index.md"), RootIndex(h)>>>>
    \o Flatten([k \in 1..Len(h) |-> CategoryWrites(output_dir, h[k])])

\* Lines 218-220: the directories generate_index makes.
IndexDirs(output_dir, h) ==
    UNION {{NormDir(SubcategoryDir(output_dir, h[k].key, h[k].val.subcategories[j].key)) :
                j \in {j \in 1..Len(h[k].val.subcategories) :
                          HasSubcategoryIndex(h[k].val.subcategories[j])}} :
            k \in 1..Len(h)}

---------------------------------------------------------------------------
(* extract_zorro_documentation                                             *)

OUTPUT_DIR == "zorro_docs"

TOC_URL == BASE_URL \o "ht_contents.htm"

\* What the site serves for a page URL (response.text, line 265).
Site(url) ==
    IF EndsWith(url, "x.htm")
    THEN Page(Some("Intro"), <<Para("Text."), CodeRegion("pre", None, "int x = 1;\n"),
                               Link(Some("http.htm"), "HTTP")>>)
    ELSE Page(None, <<Para("See"), Link(Some("x.htm"), "X"), Link(Some("z.htm"), "Z")>>)

\* The elements a TOC document is drawn from: the two markers, an item anchor whose
\* target is no page, an anchor without the item class, and three page anchors (a
\* relative target, a relative target that starts with "http", an absolute target).
TocElements ==
    { Img("images/p4.gif"),
      Img("images/p3.gif"),
      Anchor(TOC_ITEM_CLASS, Some("x.txt"), Some("a b"), "text"),
      Anchor(<<>>, Some("y.htm"), None, "Main"),
      Anchor(TOC_ITEM_CLASS, Some("x.htm"), None, "a_b"),
      Anchor(TOC_ITEM_CLASS, Some("http.htm"), Some("H"), ""),
      Anchor(TOC_ITEM_CLASS, Some(BASE_URL \o "z.htm"), None, "Z") }

TocLists == UNION {[1..n -> TocElements] : n \in 0..MaxToc}

\* Lines 248-256: the directories made for the Hierarchy.
HierarchyDirs(output_dir, h) ==
    {NormDir(CategoryDir(output_dir, h[k].key)) : k \in 1..Len(h)}
    \cup UNION {{NormDir(SubcategoryDir(output_dir, h[k].key, h[k].val.subcategories[j].key)) :
                    j \in 1..Len(h[k].val.subcategories)} : k \in 1..Len(h)}

\* Lines 283-295
OutputPath(output_dir, page) ==
    IF Truthy(page.subcategory)
    THEN PathJoin(PathJoin(PathJoin(output_dir, sanitize_filename(page.category)),
                           sanitize_filename(page.subcategory[1])),
                  SafePageFile(page))
    ELSE PathJoin(PathJoin(output_dir, sanitize_filename(page.category)), SafePageFile(page))

\* Lines 264-280: markdown_with_metadata of a page.
PageContent(page, all_pages) ==
    LET html == Site(page.url)
        tm == html_to_markdown(html)
        related_pages == find_related_pages(html, all_pages, page.url)
    IN  create_metadata_header(tm[1], page.url, page.category, page.subcategory,
                               related_pages) \o tm[2]

\* The variables of the converter's and the resolver's own specifications stay idle.
Idle == <<>>
PureIdle == md_in = Idle /\ md_out = Idle /\ rel_in = Idle /\ rel_out = Idle
RunIdle ==
    /\ toc = <<>> /\ doc_urls = <<>> /\ hierarchy = <<>> /\ dirs = {}
    /\ files = <<>> /\ i = 0 /\ log = <<>>
PureUnchanged == UNCHANGED <<md_in, md_out, rel_in, rel_out>>

Init ==
    /\ pc = "start"
    /\ toc \in TocLists
    /\ doc_urls = <<>>
    /\ hierarchy = <<>>
    /\ dirs = {}
    /\ files = <<>>
    /\ i = 0
    /\ log = <<>>
    /\ PureIdle

\* Lines 241-246 with requests.get of the TOC succeeding.
GetDocUrls ==
    /\ pc = "start"
    /\ LET r == get_doc_urls(toc)
       IN  /\ doc_urls' = r.doc_urls
           /\ hierarchy' = r.hierarchy
    /\ dirs' = dirs \cup {OUTPUT_DIR}
    /\ log' = Append(log, <<"get_toc", TOC_URL>>)
    /\ pc' = "mkdirs"
    /\ UNCHANGED <<toc, files, i>>
    /\ PureUnchanged

\* Lines 241-245 with requests.get of the TOC raising: nothing catches it.
TocFetchFails ==
    /\ pc = "start"
    /\ dirs' = dirs \cup {OUTPUT_DIR}
    /\ log' = Append(log, <<"get_toc", TOC_URL>>)
    /\ pc' = "crashed"
    /\ UNCHANGED <<toc, doc_urls, hierarchy, files, i>>
    /\ PureUnchanged

\* Lines 248-256
CreateDirectories ==
    /\ pc = "mkdirs"
    /\ dirs' = dirs \cup HierarchyDirs(OUTPUT_DIR, hierarchy)
    /\ i' = 1
    /\ pc' = "pages"
    /\ UNCHANGED <<toc, doc_urls, hierarchy, files, log>>
    /\ PureUnchanged

\* Lines 260-302: page i with no step raising.
PageSucceeds ==
    /\ pc = "pages"
    /\ i <= Len(doc_urls)
    /\ LET page == doc_urls[i]
           path == OutputPath(OUTPUT_DIR, page)
       IN  /\ CanOpen(dirs, path)
           /\ files' = WriteFile(files, path, PageContent(page, doc_urls))
           /\ log' = log \o << <<"get", page.url>>, <<"write", path>>, <<"sleep">> >>
    /\ i' = i + 1
    /\ UNCHANGED <<pc, toc, doc_urls, hierarchy, dirs>>
    /\ PureUnchanged

\* PageFails without the except clause of lines 304-305: the exception ends the run.
PageFailsUncaught ==
    /\ pc = "pages"
    /\ i <= Len(doc_urls)
    /\ log' = log \o << <<"get", doc_urls[i].url>>, <<"error", doc_urls[i].url>> >>
    /\ pc' = "crashed"
    /\ UNCHANGED <<toc, doc_urls, hierarchy, dirs, files, i>>
    /\ PureUnchanged

\* Lines 260-305: a step of page i raising: requests.get, html_to_markdown,
\* find_related_pages or open(), which raises whenever the page's directory does not
\* exist. Whichever step it is, no file is written, the sleep is skipped, the handler
\* logs the page's URL and the loop goes on.
PageFails ==
    /\ pc = "pages"
    /\ i <= Len(doc_urls)
    /\ log' = log \o << <<"get", doc_urls[i].url>>, <<"error", doc_urls[i].url>> >>
    /\ i' = i + 1
    /\ UNCHANGED <<pc, toc, doc_urls, hierarchy, dirs, files>>
    /\ PureUnchanged

ProcessPage == PageSucceeds \/ PageFails

\* Lines 307-311: generate_index after the loop; an open() that fails ends the run.
GenerateIndex ==
    /\ pc = "pages"
    /\ i > Len(doc_urls)
    /\ LET writes == IndexWrites(OUTPUT_DIR, hierarchy)
           made == dirs \cup IndexDirs(OUTPUT_DIR, hierarchy)
           r == WriteAll(files, made, writes)
       IN  /\ dirs' = made
           /\ files' = r.files
           /\ log' = Append(log, <<"index", writes>>)
           /\ pc' = IF r.ok THEN "done" ELSE "crashed"
    /\ UNCHANGED <<toc, doc_urls, hierarchy, i>>
    /\ PureUnchanged

Next == GetDocUrls \/ TocFetchFails \/ CreateDirectories \/ ProcessPage \/ GenerateIndex

Spec == Init /\ [][Next]_vars
---------------------------------------------------------------------------
(* Properties of a run.                                                    *)

\* The TOC was fetched and scanned.
TocFetched == pc \in {"mkdirs", "pages", "done"}

\* The TOC fetch raised.
TocFetchFailed == pc = "crashed" /\ log = << <<"get_toc", TOC_URL>> >>

\* The positions of the TOC's item anchors whose target ends in ".htm".
PageAnchorPositions(elements) ==
    {k \in 1..Len(elements) :
        /\ elements[k].name = "a"
        /\ elements[k].class = TOC_ITEM_CLASS
        /\ elements[k].href # None
        /\ EndsWith(elements[k].href[1], ".htm")}

\* The j-th smallest member of a set of positions.
NthOf(S, j) == CHOOSE k \in S : Cardinality({m \in S : m <= k}) = j

\* One descriptor per page anchor, in document order.
OnePerPageAnchor ==
    LET P == PageAnchorPositions(toc)
    IN  /\ Len(doc_urls) = Cardinality(P)
        /\ \A j \in 1..Len(doc_urls) :
              /\ doc_urls[j].title = TitleOf(toc[NthOf(P, j)])
              /\ doc_urls[j].filename = Basename(toc[NthOf(P, j)].href[1])

\* C1: every item anchor whose href ends in ".htm" yields exactly one descriptor, in
\* document order, no other element yields one, and every descriptor's url is
\* absolute, whatever the href.
C1_OneAbsoluteDescriptorPerPageAnchor ==
    TocFetched =>
        /\ OnePerPageAnchor
        /\ \A j \in 1..Len(doc_urls) : IsAbsoluteUrl(doc_urls[j].url)

\* The part of C1 that does not depend on the href's form.
C1_OneDescriptorPerPageAnchor == TocFetched => OnePerPageAnchor

\* The descriptors of the flat list that belong in a category's direct page list.
DirectPagesOf(cat) ==
    SelectSeq(doc_urls, LAMBDA p :
        /\ p.category = cat.key
        /\ ~(Truthy(p.subcategory) /\ DictHas(cat.val.subcategories, p.subcategory[1])))

\* The descriptors of the flat list that belong in a subcategory's list.
SubcategoryPagesOf(cat, sub) ==
    SelectSeq(doc_urls, LAMBDA p :
        /\ p.category = cat.key
        /\ Truthy(p.subcategory)
        /\ p.subcategory[1] = sub.key)

\* C2: every descriptor of the flat list is in the Hierarchy exactly once, in the
\* bucket its category and subcategory name, and every bucket is in TOC order.
C2_HierarchyHoldsEveryDescriptorOnce ==
    TocFetched =>
        /\ \A j \in 1..Len(doc_urls) : DictHas(hierarchy, doc_urls[j].category)
        /\ \A c \in 1..Len(hierarchy) :
              /\ hierarchy[c].val.pages = DirectPagesOf(hierarchy[c])
              /\ \A k \in 1..Len(hierarchy[c].val.subcategories) :
                    hierarchy[c].val.subcategories[k].val
                        = SubcategoryPagesOf(hierarchy[c], hierarchy[c].val.subcategories[k])

\* C6: a page anchor scanned while the current subcategory is not registered under
\* the current category is appended to that category's direct page list.
C6_UnregisteredSubcategoryFallsBackToCategory ==
    TocFetched =>
        \A k \in PageAnchorPositions(toc) :
            LET before == ScanTo(toc, k - 1)
                after == ScanTo(toc, k)
                cat == before.current_category
                sub == before.current_subcategory
                registered == /\ DictHas(before.hierarchy, cat)
                              /\ DictHas(DictGet(before.hierarchy, cat).subcategories, sub[1])
            IN  (sub # None /\ ~registered) =>
                    /\ DictHas(after.hierarchy, cat)
                    /\ DictGet(after.hierarchy, cat).pages # <<>>
                    /\ LET pages == DictGet(after.hierarchy, cat).pages
                       IN  pages[Len(pages)] = after.doc_urls[Len(after.doc_urls)]

\* C7: within one parent, distinct category names and distinct subcategory names
\* sanitize to distinct directory names.
C7_SanitizedNamesDistinct ==
    TocFetched =>
        /\ \A a, b \in 1..Len(hierarchy) :
              a # b => sanitize_filename(hierarchy[a].key) # sanitize_filename(hierarchy[b].key)
        /\ \A c \in 1..Len(hierarchy) :
              LET subs == hierarchy[c].val.subcategories
              IN  \A a, b \in 1..Len(subs) :
                    a # b => sanitize_filename(subs[a].key) # sanitize_filename(subs[b].key)

\* The page fetches so far, in order.
PageGets == SelectSeq(log, LAMBDA e : e[1] = "get")

IndexRuns == Cardinality({k \in 1..Len(log) : log[k][1] = "index"})

\* C5: after the TOC fetch every descriptor is attempted exactly once, in list order;
\* a failing page is logged and never stops the loop; generate_index runs exactly
\* once, after the last page; a failed TOC fetch attempts no page and writes nothing.
C5_EveryPageAttemptedThenIndex ==
    /\ pc \in {"pages", "done"} =>
          PageGets = [k \in 1..(i - 1) |-> <<"get", doc_urls[k].url>>]
    /\ IndexRuns <= 1
    /\ IndexRuns = 1 => (i = Len(doc_urls) + 1 /\ log[Len(log)][1] = "index")
    /\ pc = "done" => (IndexRuns = 1 /\ Len(PageGets) = Len(doc_urls))
    /\ pc = "crashed" => (TocFetchFailed \/ IndexRuns = 1)
    /\ TocFetchFailed => (PageGets = <<>> /\ IndexRuns = 0 /\ files = <<>>)

\* A run that went on after a failed page and ended with the index.
C5_Witness ==
    /\ pc = "done"
    /\ \E a, b \in 1..Len(log) : a < b /\ log[a][1] = "error" /\ log[b][1] = "write"

\* C8: between any two page fetches there is a pause, whatever the first page's outcome.
C8_PauseBetweenPageFetches ==
    \A a, b \in 1..Len(log) :
        (a < b /\ log[a][1] = "get" /\ log[b][1] = "get") =>
            \E m \in (a + 1)..(b - 1) : log[m][1] = "sleep"

\* The index files generate_index wrote, in order, as <<path, content>>.
IndexWritten == log[Len(log)][2]

\* The root index generate_index wrote.
RootWritten == IndexWritten[1][2]

\* The root index has a sub-heading for the subcategory in its category's section.
HeadingInRoot(category, subcategory) ==
    \E a, b \in 1..Len(RootWritten) :
        /\ a < b
        /\ RootWritten[a] = <<"h2", category>>
        /\ RootWritten[b] = <<"h3", subcategory>>
        /\ \A m \in (a + 1)..b : RootWritten[m][1] # "h2"

\* generate_index wrote the subcategory's index.md.
SubcategoryIndexWritten(category, subcategory) ==
    \E k \in 1..Len(IndexWritten) :
        /\ IndexWritten[k][1]
              = PathJoin(SubcategoryDir(OUTPUT_DIR, category, subcategory), "index.md")
        /\ Len(IndexWritten[k][2]) >= 2
        /\ IndexWritten[k][2][1] = <<"h1", subcategory>>
        /\ IndexWritten[k][2][2] = <<"link", category, "../index.md">>

SubcategoryDirExists(category, subcategory) ==
    NormDir(SubcategoryDir(OUTPUT_DIR, category, subcategory)) \in dirs

\* C9 as stated: after a complete run, a registered subcategory has a sub-heading in
\* the root index iff it has a page, an index.md iff it has a page, and a directory
\* only if it has a page.
C9_SubcategoryDirOnlyWithContent ==
    pc = "done" =>
        \A c \in 1..Len(hierarchy) : \A k \in 1..Len(hierarchy[c].val.subcategories) :
            LET cat == hierarchy[c].key
                sub == hierarchy[c].val.subcategories[k]
            IN  /\ HeadingInRoot(cat, sub.key) <=> sub.val # <<>>
                /\ SubcategoryIndexWritten(cat, sub.key) <=> sub.val # <<>>
                /\ SubcategoryDirExists(cat, sub.key) => sub.val # <<>>

\* C9 amended: after a complete run, a registered subcategory has a sub-heading in
\* the root index generate_index wrote iff it has a page, generate_index wrote an
\* index.md for it iff it has a page, and its directory exists under its category's
\* directory whether or not it has a page.
C9_SubcategoryIndexOnlyWithContent ==
    pc = "done" =>
        \A c \in 1..Len(hierarchy) : \A k \in 1..Len(hierarchy[c].val.subcategories) :
            LET cat == hierarchy[c].key
                sub == hierarchy[c].val.subcategories[k]
            IN  /\ HeadingInRoot(cat, sub.key) <=> sub.val # <<>>
                /\ SubcategoryIndexWritten(cat, sub.key) <=> sub.val # <<>>
                /\ SubcategoryDirExists(cat, sub.key)

\* A complete run with a registered subcategory that has no page: its directory
\* exists, and it has neither a sub-heading nor an index.md.
C9_Witness ==
    /\ pc = "done"
    /\ \E c \in 1..Len(hierarchy) : \E k \in 1..Len(hierarchy[c].val.subcategories) :
          LET cat == hierarchy[c].key
              sub == hierarchy[c].val.subcategories[k]
          IN  /\ sub.val = <<>>
              /\ SubcategoryDirExists(cat, sub.key)
              /\ ~HeadingInRoot(cat, sub.key)
              /\ ~SubcategoryIndexWritten(cat, sub.key)

\* The paths the root index on disk links to.
RootLinkPaths ==
    LET root == files[PathJoin(OUTPUT_DIR, "index.md")]
    IN  {PathJoin(OUTPUT_DIR, root[k][3]) : k \in {k \in 1..Len(root) : root[k][1] = "link"}}

\* The paths page files were written at.
WrittenPagePaths == {log[k][2] : k \in {k \in 1..Len(log) : log[k][1] = "write"}}

NoPageFailed == \A k \in 1..Len(log) : log[k][1] # "error"

\* C10: after a run in which no page failed, the root index links exactly the paths
\* at which page files were written.
C10_IndexLinksExactlyWrittenPages ==
    (pc = "done" /\ NoPageFailed) => RootLinkPaths = WrittenPagePaths

---------------------------------------------------------------------------
(* html_to_markdown on its own: a page drawn from a bounded set, converted. *)

MdNodes ==
    { Para("Text."),
      CodeRegion("pre", None, "int x = 1;"),
      CodeRegion("code", Some(<<"lang-Python">>), "  print(1)\n"),
      CodeRegion("pre", Some(<<"JS", "box">>), "a\n\n\nb"),
      CodeRegion("code", Some(<<"rsplus">>), "x <- 1"),
      CodeRegion("pre", Some(<<"box">>), "y = 2;\n\nz = 3;") }

MdPages ==
    {Page(title, nodes) :
        title \in {None, Some("Title")},
        nodes \in UNION {[1..n -> MdNodes] : n \in 0..MaxNodes}}

InitMd ==
    /\ pc = "md"
    /\ md_in \in MdPages
    /\ md_out = Idle
    /\ rel_in = Idle
    /\ rel_out = Idle
    /\ RunIdle

ConvertPage ==
    /\ pc = "md"
    /\ md_out = Idle
    /\ md_out' = html_to_markdown(md_in)
    /\ UNCHANGED <<md_in, rel_in, rel_out>>
    /\ UNCHANGED runVars

NextMd == ConvertPage

SpecMd == InitMd /\ [][NextMd]_vars

Converted == pc = "md" /\ md_out # Idle

\* The fenced block of a code region as the claim gives it: the region's language
\* and its text with only the outer whitespace trimmed.
ExpectedBlock(node) ==
    FENCE \o Language(node) \o "\n" \o Strip(node.text) \o "\n" \o FENCE

\* C3: for every code region of the page the Markdown returned holds a fenced block
\* with the region's language and its trimmed text, byte for byte, and no
\* placeholder is left.
C3_CodeRegionsPreserved ==
    Converted =>
        /\ \A k \in CodePositions(md_in.nodes) : Contains(md_out[2], ExpectedBlock(md_in.nodes[k]))
        /\ ~Contains(md_out[2], CODE_PLACEHOLDER)

---------------------------------------------------------------------------
(* find_related_pages on its own: a page's anchors, a descriptor list and  *)
(* the page's URL drawn from bounded sets, resolved.                       *)

RelLinks ==
    { Link(Some("x.htm"), "x"),
      Link(Some("http.htm"), "http"),
      Link(Some(BASE_URL \o "x.htm"), "x again"),
      Link(Some("q.htm"), "unknown"),
      Link(Some("x.txt"), "no page"),
      Link(None, "named anchor") }

Descriptor(url, title) ==
    [url |-> url, title |-> title, category |-> "Main", subcategory |-> None,
     filename |-> Basename(url)]

RelPageLists ==
    { <<>>,
      <<Descriptor(BASE_URL \o "x.htm", "X"), Descriptor(BASE_URL \o "http.htm", "H")>>,
      <<Descriptor(BASE_URL \o "x.htm", "X2"), Descriptor(BASE_URL \o "x.htm", "X"),
        Descriptor(BASE_URL \o "http.htm", "H")>>,
      <<Descriptor("http.htm", "H"), Descriptor(BASE_URL \o "x.htm", "X")>> }

RelCurrentUrls == {BASE_URL \o "x.htm", BASE_URL \o "http.htm", "http.htm"}

InitRel ==
    /\ pc = "rel"
    /\ rel_in \in {[html |-> Page(None, nodes), all_pages |-> pages, current_url |-> url] :
                      nodes \in UNION {[1..n -> RelLinks] : n \in 0..MaxLinks},
                      pages \in RelPageLists,
                      url \in RelCurrentUrls}
    /\ rel_out = Idle
    /\ md_in = Idle
    /\ md_out = Idle
    /\ RunIdle

ResolveRelated ==
    /\ pc = "rel"
    /\ rel_out = Idle
    /\ rel_out' = find_related_pages(rel_in.html, rel_in.all_pages, rel_in.current_url)
    /\ UNCHANGED <<rel_in, md_in, md_out>>
    /\ UNCHANGED runVars

NextRel == ResolveRelated

SpecRel == InitRel /\ [][NextRel]_vars

Resolved == pc = "rel" /\ rel_out # Idle

\* The absolute URL the anchor at position k resolves to.
ResolvedUrl(k) == urljoin(rel_in.current_url, rel_in.html.nodes[k].href[1])

\* The anchors ending in ".htm" that resolve to a known descriptor other than the
\* current page.
RelatedAnchors ==
    {k \in 1..Len(rel_in.html.nodes) :
        /\ Truthy(rel_in.html.nodes[k].href)
        /\ EndsWith(rel_in.html.nodes[k].href[1], ".htm")
        /\ ResolvedUrl(k) # rel_in.current_url
        /\ \E n \in 1..Len(rel_in.all_pages) : rel_in.all_pages[n].url = ResolvedUrl(k)}

\* The lines the anchor at position k may give: a descriptor's title with that URL
\* and the base name of the anchor's target.
LinesOfAnchor(k) ==
    {"- [" \o rel_in.all_pages[n].title \o "](" \o Basename(rel_in.html.nodes[k].href[1]) \o ")" :
        n \in {n \in 1..Len(rel_in.all_pages) : rel_in.all_pages[n].url = ResolvedUrl(k)}}

\* The first related anchor that may give the line.
FirstAnchorOf(line) ==
    CHOOSE k \in RelatedAnchors :
        /\ line \in LinesOfAnchor(k)
        /\ \A m \in RelatedAnchors : line \in LinesOfAnchor(m) => k <= m

\* C4: the result is never empty and has no duplicate line; it is ["- None"] exactly
\* when no anchor resolves to a known descriptor other than the current page;
\* otherwise every line comes from such an anchor, never from a link to the page
\* itself, and the lines are in document order of first occurrence.
C4_RelatedPagesExcludeSelf ==
    Resolved =>
        /\ rel_out # <<>>
        /\ \A a, b \in 1..Len(rel_out) : a # b => rel_out[a] # rel_out[b]
        /\ (RelatedAnchors = {}) <=> (rel_out = <<"- None">>)
        /\ RelatedAnchors # {} =>
              /\ \A j \in 1..Len(rel_out) : \E k \in RelatedAnchors : rel_out[j] \in LinesOfAnchor(k)
              /\ \A k \in RelatedAnchors : \E j \in 1..Len(rel_out) : rel_out[j] \in LinesOfAnchor(k)
              /\ \A a, b \in 1..Len(rel_out) :
                    a < b => FirstAnchorOf(rel_out[a]) < FirstAnchorOf(rel_out[b])

\* A page with a link to itself, a repeated link and links to two other pages.
C4_Witness ==
    /\ Resolved
    /\ \E k \in 1..Len(rel_in.html.nodes) :
          /\ Truthy(rel_in.html.nodes[k].href)
          /\ EndsWith(rel_in.html.nodes[k].href[1], ".htm")
          /\ ResolvedUrl(k) = rel_in.current_url
          /\ \E n \in 1..Len(rel_in.all_pages) : rel_in.all_pages[n].url = rel_in.current_url
    /\ Cardinality(RelatedAnchors) >= 2
    /\ rel_out # <<"- None">>

=============================================================================
